---- MODULE Spec2Model ----
(***************************************************************************)
(* Model of src/pages/admin/chat.tsx (ChatComponent).                      *)
(*                                                                         *)
(* The component holds four pieces of hook state (prompt, messages,        *)
(* loading, editId), reads the current user from the auth context, opens a *)
(* Firestore onSnapshot listener from an effect keyed on [user], and has   *)
(* one asynchronous handler, addOrUpdateMessage, with three awaits.        *)
(*                                                                         *)
(* Strings are sequences of characters.  Document ids are numbers, 0 is    *)
(* "no id / null".  Timestamps are ticks of the store's clock, 0 is a      *)
(* pending (not yet resolved) serverTimestamp(), seen by the client as     *)
(* null.  The hook variables hold the value last handed to their setter.   *)
(***************************************************************************)
EXTENDS Integers, Sequences, FiniteSets, TLC

(* ------------------------------ bounds ------------------------------- *)

\* accepted invocations of addOrUpdateMessage in one run
MaxSubmits == 1
\* changes of the auth context's user in one run
MaxUserChanges == 1
\* records user u1 already has in the store when the component mounts
SeedLen == 6
\* clock ticks per second of display resolution of toLocaleString()
TicksPerSecond == 2

(* ----------------------------- constants ----------------------------- *)

\* messages.slice(-5)
SliceLen == 5

Null == 0
NoUser == "none"
Users == {"u1", "u2"}
Whitespace == {" "}

\* what the user may type: nothing, whitespace only, text after a space
Drafts == {<< >>, <<" ">>, <<" ", "b">>}
\* data.choices[0].message.content of a well-formed response
Replies == {<<"r">>}

Ids == 1 .. (SeedLen + 2 * MaxSubmits)
StartClock == TicksPerSecond

VARIABLES
    prompt,      \* useState('')            line 15
    messages,    \* useState([])            line 16
    loading,     \* useState(false)         line 17
    editId,      \* useState(null)          line 18
    user,        \* useAuthContextAdmin()   line 19: a uid or NoUser
    mounted,     \* the component is in the tree
    subs,        \* live onSnapshot listeners, in the order they were opened
    store,       \* the 'messages' collection: id -> document
    clock,       \* the store's server time
    usedIds,     \* document ids handed out so far
    h,           \* the invocation of addOrUpdateMessage in flight or last finished
    submits,     \* accepted invocations so far
    userChanges, \* user changes so far
    lastOp       \* "noop" after a click on submit that the guard refused

vars == << prompt, messages, loading, editId, user, mounted, subs, store,
           clock, usedIds, h, submits, userChanges, lastOp >>

(* ------------------------- pure helpers ------------------------------ *)

Min2(a, b) == IF a <= b THEN a ELSE b

\* String.prototype.trim
RECURSIVE TrimLeft(_)
TrimLeft(s) ==
    IF s # << >> /\ Head(s) \in Whitespace THEN TrimLeft(Tail(s)) ELSE s

RECURSIVE TrimRight(_)
TrimRight(s) ==
    IF s # << >> /\ s[Len(s)] \in Whitespace
    THEN TrimRight(SubSeq(s, 1, Len(s) - 1))
    ELSE s

Trim(s) == TrimRight(TrimLeft(s))

\* Array.prototype.slice(-n): the last min(n, length) entries
SliceLast(seq, n) ==
    IF Len(seq) <= n THEN seq ELSE SubSeq(seq, Len(seq) - n + 1, Len(seq))

\* ts ? ts.toDate().toLocaleString() : null   (one-second resolution)
ToLocaleString(t) == IF t = Null THEN Null ELSE t \div TicksPerSecond

(* ------------------------------ the store ---------------------------- *)

\* an id that holds no document
NoDoc == [role |-> "none", content |-> << >>, userId |-> NoUser,
          createdAt |-> Null, updatedAt |-> Null]

EmptyStore == [i \in Ids |-> NoDoc]

\* a history written by earlier sessions of u1: one user message, submitted
\* once and edited since, and the assistant reply to each of these turns; ids
\* are random strings, so id order is unrelated to time order (here: reversed)
SeedStore ==
    [i \in Ids |->
        IF i <= SeedLen
        THEN [role      |-> IF i = SeedLen THEN "user" ELSE "assistant",
              content   |-> IF i = SeedLen THEN <<"a">> ELSE <<"r">>,
              userId    |-> "u1",
              createdAt |-> IF i = SeedLen THEN StartClock
                            ELSE StartClock + 2 * (SeedLen - i) - 1,
              updatedAt |-> IF i = SeedLen THEN StartClock + 2 * (SeedLen - 2)
                            ELSE StartClock + 2 * (SeedLen - i) - 1]
        ELSE NoDoc]

\* a fresh document as addDoc writes it; both timestamps are serverTimestamp()
NewDoc(role, content, uid, t) ==
    [role |-> role, content |-> content, userId |-> uid,
     createdAt |-> t, updatedAt |-> t]

\* an update that rewrites the creation time as well
UpdatedDocResetsCreatedAt(d, content, t) ==
    [d EXCEPT !.content = content, !.updatedAt = t, !.createdAt = t]

\* updateDoc(ref, {content, updatedAt: serverTimestamp()})
UpdatedDoc(d, content, t) == [d EXCEPT !.content = content, !.updatedAt = t]

\* What the client sees: the committed documents with the handler's
\* outstanding write applied on top, its server timestamps still pending.
LocalView(st, hh) ==
    IF hh.pc = "write" /\ hh.editId = Null
    THEN [st EXCEPT ![hh.docId] = NewDoc("user", hh.prompt, hh.uid, Null)]
    ELSE IF hh.pc = "write" /\ st[hh.editId] # NoDoc
    THEN [st EXCEPT ![hh.editId] = UpdatedDoc(st[hh.editId], hh.prompt, Null)]
    ELSE IF hh.pc = "reply"
    THEN [st EXCEPT ![hh.replyId] = NewDoc("assistant", hh.reply, hh.uid, Null)]
    ELSE st

\* where('userId', '==', uid)
WhereUser(view, uid) == {i \in Ids : view[i] # NoDoc /\ view[i].userId = uid}

\* a pending server timestamp sorts after every committed one
LateKey == StartClock + 2 * SeedLen + 2 * MaxSubmits + 1
OrderKey(d) == IF d.createdAt = Null THEN LateKey ELSE d.createdAt

\* orderBy('createdAt', 'asc'), ties broken by document id
RECURSIVE OrderByCreatedAt(_, _)
OrderByCreatedAt(view, S) ==
    IF S = {} THEN << >>
    ELSE LET first == CHOOSE i \in S : \A j \in S :
                          \/ OrderKey(view[i]) < OrderKey(view[j])
                          \/ OrderKey(view[i]) = OrderKey(view[j]) /\ i <= j
         IN  << first >> \o OrderByCreatedAt(view, S \ {first})

\* the query without orderBy: documents come in id order
RECURSIVE OrderById(_)
OrderById(S) ==
    IF S = {} THEN << >>
    ELSE LET first == CHOOSE i \in S : \A j \in S : i <= j
         IN  << first >> \o OrderById(S \ {first})

QueryDocsUnordered(view, uid) == OrderById(WhereUser(view, uid))

\* the query of fetchMessages: snapshot.docs, as ids in order
QueryDocs(view, uid) == OrderByCreatedAt(view, WhereUser(view, uid))

\* the body of the onSnapshot callback: snapshot.docs.map(...)
\* the snapshot patched into the list: entries not yet listed are appended,
\* the entries already listed stay as they are
NewMessagesPatched(view, uid) ==
    LET docs   == QueryDocs(view, uid)
        listed == {messages[j].id : j \in 1 .. Len(messages)}
        fresh  == SelectSeq(docs, LAMBDA i : i \notin listed)
    IN  messages \o
        [k \in 1 .. Len(fresh) |->
            [id |-> fresh[k], role |-> view[fresh[k]].role,
             content |-> view[fresh[k]].content,
             createdAt |-> ToLocaleString(view[fresh[k]].createdAt),
             updatedAt |-> ToLocaleString(view[fresh[k]].updatedAt)]]

NewMessages(view, uid) ==
    LET docs == QueryDocs(view, uid)
    IN  [k \in 1 .. Len(docs) |->
            [id        |-> docs[k],
             role      |-> view[docs[k]].role,
             content   |-> view[docs[k]].content,
             createdAt |-> ToLocaleString(view[docs[k]].createdAt),
             updatedAt |-> ToLocaleString(view[docs[k]].updatedAt)]]

(* ---------------------------- subscriptions -------------------------- *)

\* fetchMessages: no user, no listener; otherwise one more listener, which
\* owes its first snapshot
FetchMessages(u, ss) ==
    IF u = NoUser THEN ss ELSE Append(ss, [uid |-> u, dirty |-> TRUE])

\* What the effect's cleanup does to the listeners.  The effect callback
\* calls fetchMessages() and returns nothing (the unsubscribe closure sits in
\* the promise fetchMessages returns), so React has no cleanup to run.
EffectCleanup(ss) == ss

\* a change to uid's documents: every listener on uid owes a snapshot
Touch(ss, uid) ==
    [k \in 1 .. Len(ss) |->
        IF ss[k].uid = uid THEN [ss[k] EXCEPT !.dirty = TRUE] ELSE ss[k]]

\* the owner of the documents the outstanding write of hh changes
WriteOwner(st, hh) ==
    IF hh.pc = "write" /\ hh.editId # Null THEN st[hh.editId].userId ELSE hh.uid

(* --------------------------- the handler ----------------------------- *)

\* the guard without trim()
AcceptsUntrimmed(p, u) == p # << >> /\ u # NoUser

\* line 54: if (!prompt.trim() || !user) return;
Accepts(p, u) == Trim(p) # << >> /\ u # NoUser

\* the body built from the state at the time of the call, not the closure's
FetchBodyLive(hh) ==
    [prompt |-> prompt, messages |-> SliceLast(messages, SliceLen)]

\* line 86: JSON.stringify({ prompt, messages: messages.slice(-5) }), over the
\* prompt and messages the handler's closure holds
FetchBody(hh) ==
    [prompt |-> hh.prompt, messages |-> SliceLast(hh.messages, SliceLen)]

NoBody == [prompt |-> << >>, messages |-> << >>]

\* no invocation yet
Idle ==
    [pc |-> "idle", prompt |-> << >>, editId |-> Null, messages |-> << >>,
     uid |-> NoUser, docId |-> Null, replyId |-> Null, reply |-> << >>,
     body |-> NoBody, failedAt |-> "none", store0 |-> EmptyStore,
     touched |-> FALSE, picked |-> Null, pickedAt |-> "none"]

\* the user types or selects a message: noted on the invocation on record, to
\* tell the handler's writes to prompt and editId from the user's
Touched(hh) == IF hh.pc = "idle" THEN hh ELSE [hh EXCEPT !.touched = TRUE]

\* the user selects message id for editing while the handler is in flight:
\* noted on the invocation, with the await the handler was at
Picked(hh, id) ==
    IF hh.pc \in {"write", "fetch", "reply"}
    THEN [hh EXCEPT !.picked = id, !.pickedAt = hh.pc]
    ELSE hh

\* lines 61-78, the store after the step-2 write commits at server time t:
\* updateDoc of the edit target, or addDoc of a new user record
StepTwoWrite(st, hh, t) ==
    IF hh.editId # Null
    THEN [st EXCEPT ![hh.editId] = UpdatedDoc(st[hh.editId], hh.prompt, t)]
    ELSE [st EXCEPT ![hh.docId] = NewDoc("user", hh.prompt, hh.uid, t)]

\* the edit marker left set after the update
EditIdKept(hh, cur) == cur

\* the edit marker cleared after either write, update or addDoc
EditIdClearedAfterAnyWrite(hh, cur) == Null

\* line 68: setEditId(null) after the update, nothing after an addDoc
EditIdAfterWrite(hh, cur) == IF hh.editId # Null THEN Null ELSE cur

\* the assistant record written with the draft instead of the completion
ReplyWriteEchoesDraft(st, hh, t) ==
    [st EXCEPT ![hh.replyId] = NewDoc("assistant", hh.prompt, hh.uid, t)]

\* the assistant record owned by the user current when it is written
ReplyWriteAsCurrentUser(st, hh, t) ==
    [st EXCEPT ![hh.replyId] = NewDoc("assistant", hh.reply, user, t)]

\* lines 93-99, the store after the assistant record commits at server time t
ReplyWrite(st, hh, t) ==
    [st EXCEPT ![hh.replyId] = NewDoc("assistant", hh.reply, hh.uid, t)]

\* The id addDoc gives a new document.  Ids are random strings that the code
\* only compares for equality and that never repeat, so one unused id stands
\* for all of them: the lowest.
FreeIds(used) ==
    LET free == Ids \ used
    IN  {i \in free : \A j \in free : i <= j}

\* the draft cleared on the failure path too
CatchClearsDraft(p) == << >>

\* lines 102-103: catch logs the error; the draft is left alone
Catch(p) == p

\* loading left as it is
FinallyMissing(l) == l

\* lines 104-105: finally { setLoading(false) }
Finally(l) == FALSE

TypeOK ==
    /\ prompt \in Seq({" ", "a", "b", "r"})
    /\ loading \in BOOLEAN
    /\ editId \in Ids \cup {Null}
    /\ user \in Users \cup {NoUser}
    /\ mounted \in BOOLEAN
    /\ h.pc \in {"idle", "write", "fetch", "reply", "done"}
    /\ submits \in 0 .. MaxSubmits
    /\ userChanges \in 0 .. MaxUserChanges

(* ------------------------------- Init -------------------------------- *)

\* u1 is signed in and has a history in the store; the component has
\* rendered once and the [user] effect has run.
Init ==
    /\ prompt = << >>
    /\ messages = << >>
    /\ loading = FALSE
    /\ editId = Null
    /\ user = "u1"
    /\ mounted = TRUE
    /\ subs = FetchMessages(user, << >>)
    /\ store = SeedStore
    /\ submits = 0
    /\ usedIds = {i \in Ids : store[i] # NoDoc}
    /\ clock = StartClock + 2 * SeedLen
    /\ h = Idle
    /\ userChanges = 0
    /\ lastOp = "other"

(* ------------------------------ actions ------------------------------ *)

\* the auth context yields another user: re-render, then the [user] effect
ChangeUser(u) ==
    /\ mounted
    /\ u # user
    /\ userChanges < MaxUserChanges
    /\ user' = u
    /\ subs' = FetchMessages(u, EffectCleanup(subs))
    /\ userChanges' = userChanges + 1
    /\ lastOp' = "other"
    /\ UNCHANGED << prompt, messages, loading, editId, mounted, store, clock,
                    usedIds, h, submits >>

\* the component leaves the tree
Unmount ==
    /\ mounted
    /\ mounted' = FALSE
    /\ subs' = EffectCleanup(subs)
    /\ lastOp' = "other"
    /\ UNCHANGED << prompt, messages, loading, editId, user, store, clock,
                    usedIds, h, submits, userChanges >>

\* line 138: onChange={(e) => setPrompt(e.target.value)}
SetPrompt(s) ==
    /\ mounted
    /\ s # prompt
    /\ prompt' = s
    /\ h' = Touched(h)
    /\ lastOp' = "other"
    /\ UNCHANGED << messages, loading, editId, user, mounted, subs, store,
                    clock, usedIds, submits, userChanges >>

\* Edit offered on every message, assistant replies included
EditMessageAnyRole(k) ==
    /\ mounted
    /\ prompt' = messages[k].content
    /\ editId' = messages[k].id
    /\ h' = Picked(Touched(h), messages[k].id)
    /\ lastOp' = "other"
    /\ UNCHANGED << messages, loading, user, mounted, subs, store, clock,
                    usedIds, submits, userChanges >>

\* the edit target taken from the position in the list (the key of line 122)
\* instead of message.id
EditMessageByIndex(k) ==
    /\ mounted
    /\ messages[k].role = "user"
    /\ prompt' = messages[k].content
    /\ editId' = k
    /\ h' = Picked(Touched(h), k)
    /\ lastOp' = "other"
    /\ UNCHANGED << messages, loading, user, mounted, subs, store, clock,
                    usedIds, submits, userChanges >>

\* lines 110-113, offered at line 125 for role === 'user' only
EditMessage(k) ==
    /\ mounted
    /\ messages[k].role = "user"
    /\ prompt' = messages[k].content
    /\ editId' = messages[k].id
    /\ h' = Picked(Touched(h), messages[k].id)
    /\ lastOp' = "other"
    /\ UNCHANGED << messages, loading, user, mounted, subs, store, clock,
                    usedIds, submits, userChanges >>

\* lines 31-43: a listener delivers the current result of its query
OnSnapshot(k) ==
    /\ subs[k].dirty
    /\ messages' = NewMessages(LocalView(store, h), subs[k].uid)
    /\ subs' = [subs EXCEPT ![k].dirty = FALSE]
    /\ lastOp' = "other"
    /\ UNCHANGED << prompt, loading, editId, user, mounted, store, clock,
                    usedIds, h, submits, userChanges >>

\* lines 53-78 up to the first await; the button is disabled while loading
AddOrUpdateMessage ==
    /\ mounted
    /\ ~loading
    /\ IF ~Accepts(prompt, user)
       THEN /\ lastOp' = "noop"
            /\ UNCHANGED << prompt, messages, loading, editId, user, mounted,
                            subs, store, clock, usedIds, h, submits,
                            userChanges >>
       ELSE /\ submits < MaxSubmits
            /\ \E id \in FreeIds(usedIds) :
                 LET hh == [Idle EXCEPT
                              !.pc = "write", !.prompt = prompt,
                              !.editId = editId, !.messages = messages,
                              !.uid = user,
                              !.docId = IF editId = Null THEN id ELSE Null,
                              !.store0 = store]
                 IN  /\ h' = hh
                     /\ usedIds' = IF editId = Null THEN usedIds \cup {id}
                                                    ELSE usedIds
                     /\ subs' = Touch(subs, WriteOwner(store, hh))
            /\ loading' = TRUE
            /\ submits' = submits + 1
            /\ lastOp' = "other"
            /\ UNCHANGED << prompt, messages, editId, user, mounted, store,
                            clock, userChanges >>

\* lines 64-68 / 71-77 resolve; the handler goes on to fetch (lines 81-87)
StoreWriteResolved ==
    /\ h.pc = "write"
    /\ h.editId # Null => store[h.editId] # NoDoc
    /\ store' = StepTwoWrite(store, h, clock)
    /\ clock' = clock + 1
    /\ editId' = EditIdAfterWrite(h, editId)
    /\ subs' = Touch(subs, WriteOwner(store, h))
    /\ h' = [h EXCEPT !.pc = "fetch", !.body = FetchBody(h)]
    /\ lastOp' = "other"
    /\ UNCHANGED << prompt, messages, loading, user, mounted, usedIds,
                    submits, userChanges >>

\* the step-2 write rejects and the handler goes on to fetch all the same
StoreWriteRejectedCallsAnyway ==
    /\ h.pc = "write"
    /\ subs' = Touch(subs, WriteOwner(store, h))
    /\ h' = [h EXCEPT !.pc = "fetch", !.body = FetchBody(h)]
    /\ lastOp' = "other"
    /\ UNCHANGED << prompt, messages, loading, editId, user, mounted, store,
                    clock, usedIds, submits, userChanges >>

\* the step-2 write rejects: catch (line 102), finally (line 105)
StoreWriteRejected ==
    /\ h.pc = "write"
    /\ subs' = Touch(subs, WriteOwner(store, h))
    /\ h' = [h EXCEPT !.pc = "done", !.failedAt = "write"]
    /\ prompt' = Catch(prompt)
    /\ loading' = Finally(loading)
    /\ lastOp' = "other"
    /\ UNCHANGED << messages, editId, user, mounted, store, clock,
                    usedIds, submits, userChanges >>

\* lines 81-99: a response with choices[0].message.content = r; the handler
\* goes on to write the assistant record
FetchResolved(r) ==
    /\ h.pc = "fetch"
    /\ \E id \in FreeIds(usedIds) :
         /\ h' = [h EXCEPT !.pc = "reply", !.reply = r, !.replyId = id]
         /\ usedIds' = usedIds \cup {id}
    /\ subs' = Touch(subs, h.uid)
    /\ lastOp' = "other"
    /\ UNCHANGED << prompt, messages, loading, editId, user, mounted, store,
                    clock, submits, userChanges >>

\* fetch or response.json() rejects: catch, finally
FetchRejected ==
    /\ h.pc = "fetch"
    /\ h' = [h EXCEPT !.pc = "done", !.failedAt = "fetch"]
    /\ prompt' = Catch(prompt)
    /\ loading' = Finally(loading)
    /\ lastOp' = "other"
    /\ UNCHANGED << messages, editId, user, mounted, subs, store,
                    clock, usedIds, submits, userChanges >>

\* line 90: the response has no choices[0].message: TypeError, catch, finally
ResponseMalformed ==
    /\ h.pc = "fetch"
    /\ h' = [h EXCEPT !.pc = "done", !.failedAt = "shape"]
    /\ prompt' = Catch(prompt)
    /\ loading' = Finally(loading)
    /\ lastOp' = "other"
    /\ UNCHANGED << messages, editId, user, mounted, subs, store,
                    clock, usedIds, submits, userChanges >>

\* the assistant record is committed and the draft is cleared only when it
\* is still the draft that was submitted
ReplyWriteResolvedKeepsNewDraft ==
    /\ h.pc = "reply"
    /\ store' = ReplyWrite(store, h, clock)
    /\ clock' = clock + 1
    /\ subs' = Touch(subs, h.uid)
    /\ prompt' = IF prompt = h.prompt THEN << >> ELSE prompt
    /\ h' = [h EXCEPT !.pc = "done"]
    /\ loading' = Finally(loading)
    /\ lastOp' = "other"
    /\ UNCHANGED << messages, editId, user, mounted, usedIds, submits,
                    userChanges >>

\* lines 93-101 resolve: the assistant record is committed, the draft is
\* cleared, finally
ReplyWriteResolved ==
    /\ h.pc = "reply"
    /\ store' = ReplyWrite(store, h, clock)
    /\ clock' = clock + 1
    /\ subs' = Touch(subs, h.uid)
    /\ prompt' = << >>
    /\ h' = [h EXCEPT !.pc = "done"]
    /\ loading' = Finally(loading)
    /\ lastOp' = "other"
    /\ UNCHANGED << messages, editId, user, mounted, usedIds, submits,
                    userChanges >>

\* the assistant write rejects: catch, finally
ReplyWriteRejected ==
    /\ h.pc = "reply"
    /\ subs' = Touch(subs, h.uid)
    /\ h' = [h EXCEPT !.pc = "done", !.failedAt = "reply"]
    /\ prompt' = Catch(prompt)
    /\ loading' = Finally(loading)
    /\ lastOp' = "other"
    /\ UNCHANGED << messages, editId, user, mounted, store, clock,
                    usedIds, submits, userChanges >>

Next ==
    \/ \E u \in Users \cup {NoUser} : ChangeUser(u)
    \/ Unmount
    \/ \E s \in Drafts : SetPrompt(s)
    \/ \E k \in 1 .. Len(messages) : EditMessage(k)
    \/ \E k \in 1 .. Len(subs) : OnSnapshot(k)
    \/ AddOrUpdateMessage
    \/ StoreWriteResolved
    \/ StoreWriteRejected
    \/ \E r \in Replies : FetchResolved(r)
    \/ FetchRejected
    \/ ResponseMalformed
    \/ ReplyWriteResolved
    \/ ReplyWriteRejected

Spec == Init /\ [][Next]_vars

\* the continuations of the handler's awaits
HandlerStep ==
    \/ StoreWriteResolved
    \/ StoreWriteRejected
    \/ \E r \in Replies : FetchResolved(r)
    \/ FetchRejected
    \/ ResponseMalformed
    \/ ReplyWriteResolved
    \/ ReplyWriteRejected

\* every awaited store write and the remote call eventually settles
FairSpec == Spec /\ WF_vars(HandlerStep)

(* ------------------------------ claims ------------------------------- *)

\* an invocation on record has finished
Done == h.pc = "done"
Succeeded == Done /\ h.failedAt = "none"
Failed == Done /\ h.failedAt # "none"

\* the step-2 write of the invocation on record has succeeded and its remote
\* call has been made
CallMade == h.pc \in {"fetch", "reply"} \/ (Done /\ h.failedAt # "write")

\* the documents the store gained, and those it changed, since the invocation
\* on record began
NewIds == {i \in Ids : h.store0[i] = NoDoc /\ store[i] # NoDoc}
ChangedIds == {i \in Ids : h.store0[i] # NoDoc /\ store[i] # h.store0[i]}

\* C1: once the view is unmounted no subscription is live any more, so no
\* snapshot can reach the local state after unmount.
C1_ReleasedOnUnmount == ~mounted => Len(subs) = 0

\* C2: at any time at most one subscription is live, and it is for the
\* current user.
C2_OneSubscriptionForCurrentUser ==
    /\ Len(subs) <= 1
    /\ \A k \in 1 .. Len(subs) : subs[k].uid = user

\* C3: a click on submit with an empty or whitespace-only draft, or with no
\* user, changes nothing: no store write, no pending write, no remote call,
\* and prompt, messages, loading and editId stay as they are.
C3_NoopOnBlankDraftOrNoUser ==
    [][(AddOrUpdateMessage /\ (Trim(prompt) = << >> \/ user = NoUser))
          => UNCHANGED << prompt, messages, loading, editId, store, clock,
                          usedIds, subs, h, submits >>]_vars

C3_Witness ==
    /\ lastOp = "noop"
    /\ prompt = <<" ">>
    /\ user # NoUser
    /\ h = Idle

\* C4: an invocation in which every step succeeded has, when it finishes,
\* added exactly one user record holding the draft (or, when editId was set,
\* updated exactly the edit target and added no user record), and after that
\* exactly one assistant record holding the response's content.
C4_RecordsOfSuccessfulInvocation ==
    Succeeded =>
        LET newUser == {i \in NewIds : store[i].role = "user"}
            newAsst == {i \in NewIds : store[i].role = "assistant"}
        IN  /\ NewIds = newUser \cup newAsst
            /\ Cardinality(newAsst) = 1
            /\ \A j \in newAsst :
                 /\ store[j].content = h.reply
                 /\ \A i \in newUser \cup ChangedIds :
                      store[i].updatedAt < store[j].createdAt
            /\ IF h.editId = Null
               THEN /\ Cardinality(newUser) = 1
                    /\ \A i \in newUser : store[i].content = h.prompt
                    /\ ChangedIds = {}
               ELSE /\ newUser = {}
                    /\ ChangedIds = {h.editId}
                    /\ store[h.editId].content = h.prompt

C4_Witness ==
    /\ Succeeded
    /\ h.editId # Null
    /\ Cardinality(NewIds) = 1

\* C5 as claimed: when an invocation has failed, the draft and the edit
\* marker are what they were when it was invoked (the user not having typed
\* or selected a message in between).
C5_DraftAndEditIdAsInvoked ==
    (Failed /\ ~h.touched) => (prompt = h.prompt /\ editId = h.editId)

\* C5 as amended: when an invocation has failed, the draft is what it was
\* when it was invoked, and so is the edit marker, except that it is null
\* once the update of an edit has succeeded (the user not having typed or
\* selected a message in between).
C5_DraftKeptEditIdClearedByUpdate ==
    (Failed /\ ~h.touched) =>
        /\ prompt = h.prompt
        /\ editId = IF h.editId # Null /\ h.failedAt # "write"
                    THEN Null ELSE h.editId

C5_Witness ==
    /\ Failed
    /\ ~h.touched
    /\ h.editId # Null
    /\ h.failedAt = "fetch"
    /\ editId = Null
    /\ prompt = h.prompt

\* C6: when a non-edit invocation has written its user record and the remote
\* call has then failed, that record is in the store, the invocation has
\* created no assistant record, loading is false, and the draft is the one
\* submitted (the user not having typed or selected a message in between).
C6_UserRecordKeptOnRemoteFailure ==
    (Done /\ h.failedAt \in {"fetch", "shape"} /\ h.editId = Null) =>
        /\ store[h.docId].role = "user"
        /\ store[h.docId].content = h.prompt
        /\ store[h.docId].userId = h.uid
        /\ store[h.docId].createdAt # Null
        /\ NewIds = {h.docId}
        /\ ChangedIds = {}
        /\ ~loading
        /\ ~h.touched => (prompt = h.prompt /\ Trim(prompt) # << >>)

C6_Witness ==
    /\ Done
    /\ h.failedAt = "fetch"
    /\ h.editId = Null
    /\ ~h.touched
    /\ store[h.docId].role = "user"

\* C7: whenever loading is true it eventually becomes false again, every
\* awaited store write and the remote call eventually settling.
C7_LoadingEventuallyFalse == loading ~> ~loading

C7_Witness ==
    /\ Failed
    /\ h.failedAt = "write"
    /\ ~loading

\* C8: once the update of an invocation that edits message M has succeeded,
\* only M's content and updatedAt have changed: M keeps its id, role,
\* createdAt and owner and no other existing record has changed.  When the
\* invocation has succeeded as a whole, exactly one record has been added, an
\* assistant record created later than every other record and last in its
\* owner's list; until then none has.
C8_EditChangesOnlyTarget ==
    (CallMade /\ h.editId # Null) =>
        LET old == h.store0[h.editId]
            new == store[h.editId]
            q   == QueryDocs(store, h.uid)
        IN  /\ old # NoDoc
            /\ old.role = "user"
            /\ new = [old EXCEPT !.content = h.prompt,
                                 !.updatedAt = new.updatedAt]
            /\ new.updatedAt > old.updatedAt
            /\ ChangedIds = {h.editId}
            /\ IF Succeeded
               THEN /\ NewIds = {h.replyId}
                    /\ store[h.replyId].role = "assistant"
                    /\ \A i \in Ids \ {h.replyId} :
                         store[i] # NoDoc =>
                             store[i].createdAt < store[h.replyId].createdAt
                    /\ q[Len(q)] = h.replyId
               ELSE NewIds = {}

C8_Witness ==
    /\ Succeeded
    /\ h.editId = SeedLen
    /\ h.uid = "u1"
    /\ store[h.editId].content = <<" ", "b">>
    /\ store[h.editId].content # h.store0[h.editId].content

C10_PayloadFromInvocation ==
    CallMade =>
        LET n == Min2(SliceLen, Len(h.messages))
        IN  /\ h.body.prompt = h.prompt
            /\ Len(h.body.messages) = n
            /\ \A k \in 1 .. n :
                 h.body.messages[k] = h.messages[Len(h.messages) - n + k]

C10_Witness ==
    /\ h.pc = "fetch"
    /\ Len(h.messages) > SliceLen
    /\ Len(h.body.messages) = SliceLen
    /\ messages # h.messages
    /\ prompt # h.prompt

\* an invocation on record is awaiting a store write or the remote call
InFlight == h.pc \in {"write", "fetch", "reply"}

\* this step is an accepted click on submit: an invocation begins
Invoked == h.pc # "write" /\ h'.pc = "write"

\* the records the invocation on record has written so far
Written == NewIds \cup ChangedIds

C12_EffectsOrdered ==
    /\ [](h.pc # "idle" =>
            LET stepTwo == IF h.editId # Null THEN {h.editId} ELSE {h.docId}
                called  == h.body # NoBody
                replies == IF h.replyId # Null THEN {h.replyId} ELSE {}
            IN  /\ called => stepTwo \subseteq Written
                /\ ~called => Written = {}
                /\ h.replyId # Null => (called /\ h.reply \in Replies)
                /\ h.failedAt = "write" => (~called /\ h.replyId = Null)
                /\ h.failedAt \in {"fetch", "shape"} => h.replyId = Null
                /\ Written \subseteq stepTwo \cup replies
                /\ Cardinality(Written) <= 2)
    /\ [][(h.body # NoBody /\ ~Invoked) => h'.body = h.body]_vars

C12_Witness ==
    /\ Done
    /\ h.failedAt = "write"
    /\ h.body = NoBody
    /\ h.replyId = Null
    /\ Written = {}
    /\ h.touched

\* C13: an invocation begun while editId is set is an edit of that record: it
\* creates no user record and changes no record but the target, which holds
\* the draft once the update has succeeded; every accepted click while editId
\* is set begins such an invocation; and editId goes from set to null in
\* exactly the steps in which the update of an edit succeeds.
C13_EditWhileEditIdSet ==
    /\ [](h.pc # "idle" /\ h.editId # Null =>
            /\ h.docId = Null
            /\ {i \in NewIds : store[i].role = "user"} = {}
            /\ ChangedIds \subseteq {h.editId}
            /\ CallMade => /\ ChangedIds = {h.editId}
                           /\ store[h.editId].content = h.prompt)
    /\ [][/\ Invoked => (h'.editId = editId /\ editId' = editId)
          /\ (editId # Null /\ editId' = Null)
                <=> (h.pc = "write" /\ h.editId # Null /\ h'.pc = "fetch")]_vars

C13_Witness ==
    /\ h.pc = "fetch"
    /\ h.editId # Null
    /\ editId = Null
    /\ ChangedIds = {h.editId}
    /\ NewIds = {}
    /\ ~h.touched

\* C14: in every step every record in the store stays in the store with its
\* role, and a record that changes is a user record of which only content
\* and updatedAt change.
C14_RolesFixedOnlyUserRecordsEdited ==
    [][\A i \in Ids :
          store[i] # NoDoc =>
              /\ store'[i] # NoDoc
              /\ store'[i].role = store[i].role
              /\ store'[i] # store[i] =>
                    /\ store[i].role = "user"
                    /\ store'[i] = [store[i] EXCEPT
                                       !.content = store'[i].content,
                                       !.updatedAt = store'[i].updatedAt]]_vars

C14_Witness ==
    /\ h.pc = "reply"
    /\ h.editId # Null
    /\ store[h.editId].role = "user"
    /\ store[h.editId].content # h.store0[h.editId].content
    /\ \E i \in Ids : store[i].role = "assistant" /\ store[i] = h.store0[i]

\* listener k delivers a snapshot in this step
Delivered(k) == subs[k].dirty /\ ~subs'[k].dirty

\* C15: messages changes only in a step in which a listener delivers a
\* snapshot, and after every delivery it lists exactly the documents of that
\* listener's query, each once, with the role and content of the document.
C15_MessagesOwnedBySnapshots ==
    [][/\ messages' # messages => \E k \in 1 .. Len(subs) : Delivered(k)
       /\ \A k \in 1 .. Len(subs) :
            Delivered(k) =>
                LET view == LocalView(store, h)
                    docs == {i \in Ids : /\ view[i] # NoDoc
                                         /\ view[i].userId = subs[k].uid}
                IN  /\ Len(messages') = Cardinality(docs)
                    /\ {messages'[j].id : j \in 1 .. Len(messages')} = docs
                    /\ \A j \in 1 .. Len(messages') :
                         /\ messages'[j].role = view[messages'[j].id].role
                         /\ messages'[j].content
                               = view[messages'[j].id].content]_vars

C15_Witness ==
    /\ Succeeded
    /\ h.editId = Null
    /\ Len(h.messages) = SeedLen
    /\ Len(messages) = SeedLen + 2
    /\ editId # Null

\* C16: the user record and the assistant record an invocation adds are both
\* owned by the user who was current at the click, whoever is current when
\* they are written.
C16_BothRecordsOwnedByInvoker ==
    /\ [](h.pc # "idle" =>
            /\ \A i \in NewIds : store[i].userId = h.uid
            /\ NewIds \subseteq {h.docId, h.replyId})
    /\ [][Invoked => h'.uid = user]_vars

C16_Witness ==
    /\ h.pc = "reply"
    /\ h.editId = Null
    /\ user # h.uid
    /\ user # NoUser
    /\ store[h.docId].userId = h.uid

\* this step is the last of an invocation in which every step succeeded
Completes == h.pc = "reply" /\ h'.pc = "done" /\ h'.failedAt = "none"

\* C17 as claimed: when an invocation completes with every step successful
\* the draft is empty, whatever was typed or selected in flight, and a
\* message selected for editing in flight is still the edit target.
C17_DraftEmptyEditSelectionKept ==
    [][Completes =>
          /\ prompt' = << >>
          /\ h.picked # Null => editId' = h.picked]_vars

\* C17 as amended: when an invocation completes with every step successful
\* the draft is empty, whatever was typed or selected in flight, and a
\* message selected for editing in flight is still the edit target, unless
\* the invocation was an edit and the selection was made before its update
\* succeeded: then editId is null.
C17_DraftEmptyEditSelectionKeptAfterUpdate ==
    [][Completes =>
          /\ prompt' = << >>
          /\ h.picked # Null =>
                editId' = IF h.editId # Null /\ h.pickedAt = "write"
                          THEN Null ELSE h.picked]_vars

C17_Witness ==
    /\ Succeeded
    /\ h.editId # Null
    /\ h.picked # Null
    /\ h.pickedAt = "fetch"
    /\ editId = h.picked
    /\ prompt = << >>

\* C18: selecting message k for editing sets the draft to its content and
\* editId to its id and changes nothing else: not the store, not the
\* outstanding writes or call of an invocation, not messages, not loading.
C18_EditMessageIsLocal ==
    [][\A k \in 1 .. Len(messages) :
          EditMessage(k) =>
              /\ prompt' = messages[k].content
              /\ editId' = messages[k].id
              /\ editId' # Null
              /\ h' = [h EXCEPT !.touched = h'.touched,
                                !.picked = h'.picked,
                                !.pickedAt = h'.pickedAt]
              /\ UNCHANGED << messages, loading, store, clock, usedIds,
                              subs, user >>]_vars

C18_Witness ==
    /\ loading
    /\ h.pc = "write"
    /\ h.picked # Null
    /\ editId = h.picked
    /\ messages = h.messages
    /\ store = h.store0
    /\ \E k \in 1 .. Len(messages) :
         messages[k].id = editId /\ prompt = messages[k].content

\* C19: the record an edit invocation updates is owned by the user who was
\* current at the click.
C19_UpdateTargetsOwnRecord ==
    (h.pc # "idle" /\ h.editId # Null /\ h.store0[h.editId] # NoDoc) =>
        h.store0[h.editId].userId = h.uid

====
